---- MODULE Spec2Model ----
(***************************************************************************)
(* Model of the interactive-gym game server: the registry of game ids      *)
(* (server/server_app.py), the RemoteGame session object                   *)
(* (server/remote_game.py), the socket event handlers, and the run_game    *)
(* background task.  Event handlers run on concurrent threads; one         *)
(* run_game task is spawned per promotion of a game.                       *)
(***************************************************************************)
EXTENDS Integers, Sequences, FiniteSets, TLC

\* ------------------------------------------------------------------------
\* Bounds of the model
\* ------------------------------------------------------------------------
\* RemoteGame objects referenced at the same time
MaxGames == 2
\* run_game background tasks alive at the same time
MaxLoops == 2
\* the environment truncates an episode after this many steps
MaxSteps == 2
\* environment failures (env_creator / env.step / env.reset raising) in one run
MaxFaults == 1
\* length WAITING_GAMES may grow to
MaxWaiting == 4
\* client events of each kind in one run
MaxJoins == 4
MaxLeaves == 2
MaxDisconnects == 1
MaxActions == 2
MaxResetCompletes == 2
\* the smaller numbers of joins and leaves of the runs with keys or resets
PlayJoins == 2
PlayLeaves == 1
\* joins of the run with three clients
CrowdJoins == 4
\* CONFIG.num_episodes of the runs with resets
MaxEpisodes == 2
\* the largest CONFIG.max_concurrent_games of any run
MaxIds == 2
\* joins of the run in which a third client joins after a game ended
EndJoins == 3
\* CONFIG.frame_skip of every run
FrameSkip == 2

\* ------------------------------------------------------------------------
\* Values
\* ------------------------------------------------------------------------
\* utils.Available, the sentinel of an unfilled human slot
Available == "Available"

\* GameStatus
Done == "done"
Active == "active"
Inactive == "inactive"
Reset == "reset"

\* CONFIG.action_mapping: key -> action; every other key is unmapped
action_mapping == [k \in {"k1", "k2"} |-> IF k = "k1" THEN "a1" ELSE "a2"]

\* CONFIG.default_action
default_action == "noop"

\* an empty capacity-1 queue
NoAction == "none"

\* the keys a client may report as pressed
Keys == {"k1", "k2", "x"}

\* the socket ids (flask.request.sid) of the clients, in the order they connect
SubjectOrder == <<"a", "b", "c">>

\* the handler threads of the server
ThreadNames == {"t1", "t2"}

\* names of the run_game tasks, as lock holders
LoopNames == <<"L1", "L2", "L3", "L4">>

\* a lock nobody holds
Free == "free"

VARIABLES
    CONFIG,         \* [max_concurrent_games, num_episodes, game_has_composite_actions,
                    \* human_slots, bot_slots, frame_skip]
    sock,           \* subject -> "new" | "open" | "closed": the client's socket
    SUBJECTS,       \* subjects with a lock in SUBJECTS
    subjLock,       \* subject -> holder of SUBJECTS[subject]
    USER_ROOMS,     \* subject -> game id, 0 when absent
    GAMES,          \* game id -> RemoteGame object (handle), 0 when absent
    ACTIVE_GAMES,   \* set of game ids
    WAITING_GAMES,  \* list of game ids
    FREE_MAP,       \* game id -> BOOLEAN
    FREE_IDS,       \* FIFO queue of game ids
    RESET_EVENTS,   \* game id -> subject -> "absent" | "clear" | "set"
    games,          \* handle -> RemoteGame object
    threads,        \* handler thread -> [pc, op, subj, game, act, room, gen, failed, keys]:
                    \* its place, handler, flask.request.sid and local variables;
                    \* failed: _create_game got no game and reported the error;
                    \* keys: data["pressed_keys"] of on_action
    loops,          \* run_game task -> [pc, game]; pc "off": no such task
    faults,         \* environment failures still to happen
    budget,         \* kind of client event -> events of that kind still to arrive
    emitted         \* the socket events the step just taken emitted: [event, to, game]

vars == <<CONFIG, sock, SUBJECTS, subjLock, USER_ROOMS, GAMES, ACTIVE_GAMES,
          WAITING_GAMES, FREE_MAP, FREE_IDS, RESET_EVENTS, games,
          threads, loops, faults, budget, emitted>>

Subjects == DOMAIN sock

Threads == DOMAIN threads

Ids == 1..CONFIG.max_concurrent_games

\* agent ids that CONFIG.policy_mapping maps to PolicyTypes.Human, in dict order
HumanSlots == CONFIG.human_slots

Handles == 1..MaxGames

SlotSet == {HumanSlots[i] : i \in 1..Len(HumanSlots)}

\* ------------------------------------------------------------------------
\* RemoteGame
\* ------------------------------------------------------------------------
\* RemoteGame.__init__ : the object as constructed for game_id
NewGame(game_id, subjects) ==
    [game_id |-> game_id,
     status |-> Inactive,
     lock |-> Free,
     reset_event |-> FALSE,
     human_players |-> [p \in SlotSet |-> Available],
     pending_actions |-> [s \in subjects |-> NoAction],
     pending_gen |-> 0,
     tick_num |-> 0,
     episode_num |-> 0,
     \* whether the env.step of the tick just made reported terminated or truncated
     ended |-> FALSE,
     \* the bot agents whose policy the tick just made evaluated
     policy_calls |-> {},
     \* the actions tick handed to env.step, kept until run_game goes on
     player_actions |-> [p \in SlotSet |-> default_action]]

\* a handle no object has been constructed for
NoGame(subjects) == NewGame(0, subjects)

\* a list of available slots that takes every human slot for free
C31_AllSlotsOpen(g) == SlotSet

get_available_human_player_ids(g) ==
    {p \in SlotSet : g.human_players[p] = Available}

is_at_player_capacity(g) == get_available_human_player_ids(g) = {}

is_ready_to_start(g) == is_at_player_capacity(g)

cur_num_human_players(g) ==
    Cardinality({p \in SlotSet : g.human_players[p] # Available})

\* the subjects in the game's human slots
Occupants(g) == {g.human_players[p] : p \in SlotSet} \ {Available}

\* index in HumanSlots of the first slot held by subject_id, 0 when none
FirstSlotOf(g, subject_id) ==
    LET hit == {i \in 1..Len(HumanSlots) : g.human_players[HumanSlots[i]] = subject_id}
    IN IF hit = {} THEN 0 ELSE CHOOSE i \in hit : \A j \in hit : i <= j

remove_human_player(g, subject_id) ==
    LET i == FirstSlotOf(g, subject_id)
    IN IF i = 0 THEN g
       ELSE [g EXCEPT !.human_players[HumanSlots[i]] = Available]

\* RemoteGame.add_player: the assert fails on a slot that is not available,
\* and the slots are as they were
add_player(g, player_id, identifier) ==
    IF player_id \in get_available_human_player_ids(g)
    THEN [g EXCEPT !.human_players[player_id] = identifier]
    ELSE g

tear_down(g) ==
    [g EXCEPT !.status = Inactive,
              !.pending_actions = [s \in DOMAIN g.pending_actions |-> NoAction]]

\* RemoteGame.reset_pending_actions: a new dict of new, empty queues
reset_pending_actions(g) ==
    [g EXCEPT !.pending_actions = [s \in DOMAIN g.pending_actions |-> NoAction],
              !.pending_gen = g.pending_gen + 1]

\* RemoteGame.reset: new queues, status Active, tick 0, next episode
reset(g) ==
    [reset_pending_actions(g) EXCEPT
              !.status = Active,
              !.tick_num = 0,
              !.episode_num = g.episode_num + 1]

\* the action tick takes for a slot: the queued one, or the default; the
\* slots are gone through in dict order, and a get empties the queue
SlotAction(g, p) ==
    LET sid == g.human_players[p]
    IN IF sid # Available /\ g.pending_actions[sid] # NoAction
          /\ HumanSlots[FirstSlotOf(g, sid)] = p
       THEN g.pending_actions[sid]
       ELSE default_action

\* a status that takes the episode counter for the number of episodes finished
C21_StatusOneEarlier(g, num_episodes) ==
    IF g.episode_num < num_episodes - 1 THEN Reset ELSE Done

\* a status that never ends the session
C22_NeverDone(g, num_episodes) == Reset

\* the status a step that ends the episode leaves
StatusAfterEpisode(g, num_episodes) ==
    IF g.episode_num < num_episodes THEN Reset ELSE Done

\* a tick that reads the queued actions and leaves them in the queues
C29_KeepQueued(g) ==
    [g EXCEPT !.player_actions = [p \in SlotSet |-> SlotAction(g, p)]]

\* the first statement of RemoteGame.tick: the queued actions are taken
take_player_actions(g) ==
    [g EXCEPT !.player_actions = [p \in SlotSet |-> SlotAction(g, p)],
              !.pending_actions = [s \in DOMAIN g.pending_actions |->
                                     IF s \in Occupants(g) THEN NoAction
                                     ELSE g.pending_actions[s]]]

\* the loop of RemoteGame.tick over bot_players: every bot gets an action from
\* its policy (sampled, or inferred), whatever tick_num and frame_skip are
bot_policy_calls(g) == CONFIG.bot_slots

\* RemoteGame.tick, the environment reporting terminated-or-truncated as ended
tick(g, ended, num_episodes) ==
    [take_player_actions(g) EXCEPT
              !.policy_calls = bot_policy_calls(g),
              !.tick_num = g.tick_num + 1,
              !.ended = ended,
              !.status = IF ended THEN StatusAfterEpisode(g, num_episodes)
                         ELSE g.status]

\* ------------------------------------------------------------------------
\* Registry helpers
\* ------------------------------------------------------------------------
\* a lookup that never finds the subject's game
C6_NoExistingGame(subject_id) == 0

\* _get_existing_game: the handle of the subject's game, 0 for None
get_existing_game(subject_id) ==
    IF USER_ROOMS[subject_id] = 0 THEN 0 ELSE GAMES[USER_ROOMS[subject_id]]

\* get_waiting_game: the handle at the head of WAITING_GAMES, 0 for None
get_waiting_game ==
    IF WAITING_GAMES # <<>> THEN GAMES[Head(WAITING_GAMES)] ELSE 0

\* list.remove: drop the first occurrence of x
RemoveFirst(seq, x) ==
    LET hit == {i \in 1..Len(seq) : seq[i] = x}
        k == CHOOSE i \in hit : \A j \in hit : i <= j
    IN [i \in 1..(Len(seq) - 1) |-> IF i < k THEN seq[i] ELSE seq[i + 1]]

InSeq(seq, x) == \E i \in 1..Len(seq) : seq[i] = x

\* a handler thread that runs nothing
IdleThread == [pc |-> "idle", op |-> "", subj |-> "", game |-> 0,
               act |-> NoAction, room |-> 0, gen |-> 0, failed |-> FALSE,
               keys |-> <<>>]

\* a run_game task that does not exist
NoLoop == [pc |-> "off", game |-> 0]

\* ------------------------------------------------------------------------
\* Initial state: run(config) has filled FREE_IDS, FREE_MAP and RESET_EVENTS
\* ------------------------------------------------------------------------
InitWith(config, subjects, thr, nfaults, events) ==
    /\ CONFIG = config
    /\ sock = [s \in subjects |-> "new"]
    /\ SUBJECTS = {}
    /\ subjLock = [s \in subjects |-> Free]
    /\ USER_ROOMS = [s \in subjects |-> 0]
    /\ GAMES = [i \in 1..config.max_concurrent_games |-> 0]
    /\ ACTIVE_GAMES = {}
    /\ WAITING_GAMES = <<>>
    /\ FREE_MAP = [i \in 1..config.max_concurrent_games |-> TRUE]
    /\ FREE_IDS = [i \in 1..config.max_concurrent_games |-> i]
    /\ RESET_EVENTS = [i \in 1..config.max_concurrent_games |->
                         [s \in subjects |-> "absent"]]
    /\ games = [h \in Handles |-> NoGame(subjects)]
    /\ threads = [t \in thr |-> IdleThread]
    /\ loops = [l \in 1..MaxLoops |-> NoLoop]
    /\ faults = nfaults
    /\ budget = events
    /\ emitted = {}

\* ------------------------------------------------------------------------
\* Threads, locks, objects
\* ------------------------------------------------------------------------
Pc(t) == threads[t].pc

\* the handler of thread t returns (or dies of an exception)
Return(t) == [threads EXCEPT ![t] = IdleThread]

Goto(t, pc) == [threads EXCEPT ![t].pc = pc]

\* a RemoteGame object something still refers to
Referenced(h) ==
    \/ \E i \in Ids : GAMES[i] = h
    \/ \E t \in Threads : threads[t].game = h
    \/ \E l \in 1..MaxLoops : loops[l].game = h

\* the objects once nothing but `registry`, `thr` and `tasks` refers to them: an
\* object no one refers to is gone, and its handle is as good as new
Collect(objects, registry, thr, tasks) ==
    [h \in Handles |->
        IF \/ \E i \in Ids : registry[i] = h
           \/ \E t \in Threads : thr[t].game = h
           \/ \E l \in 1..MaxLoops : tasks[l].game = h
        THEN objects[h] ELSE NoGame(Subjects)]

\* some handle is free for a new RemoteGame object
CanConstruct == \E h \in Handles : ~Referenced(h)

FreshHandle == CHOOSE h \in Handles : ~Referenced(h) /\ \A k \in Handles : ~Referenced(k) => h <= k

\* some run_game task can still be spawned
CanSpawn == \E l \in 1..MaxLoops : loops[l].pc = "off"

FreshLoop == CHOOSE l \in 1..MaxLoops : loops[l].pc = "off" /\ \A k \in 1..MaxLoops : loops[k].pc = "off" => l <= k

\* socketio.start_background_task(run_game, game)
start_background_task(h) == [loops EXCEPT ![FreshLoop] = [pc |-> "start", game |-> h]]

\* ------------------------------------------------------------------------
\* Socket events
\* ------------------------------------------------------------------------
\* the room an emit with no room (room=None) goes to: every connected client
Everyone == "all"

\* emit(event, room=subject_id): the event goes to one client
ToSid(event, subject_id) == {[event |-> event, to |-> subject_id, game |-> 0]}

\* socketio.emit(event, room=game_id): the event goes to the room of the game,
\* and to every connected client when game_id is None (0)
ToRoom(event, game_id) ==
    IF game_id = 0 THEN {[event |-> event, to |-> Everyone, game |-> 0]}
    ELSE {[event |-> event, to |-> "room", game |-> game_id]}

\* the clients an emitted event e is sent to; a room holds the clients whose
\* connection maps to the game (join_room and leave_room go with USER_ROOMS)
Receivers(e) ==
    IF e.to = Everyone THEN {s \in Subjects : sock[s] = "open"}
    ELSE IF e.to = "room" THEN {s \in Subjects : USER_ROOMS[s] = e.game}
    ELSE {e.to}

\* ------------------------------------------------------------------------
\* on_connect / the client opening its socket
\* ------------------------------------------------------------------------
on_connect(s) ==
    /\ sock[s] = "new"
    /\ \A i, j \in 1..Len(SubjectOrder) :
          i < j /\ SubjectOrder[j] = s /\ SubjectOrder[i] \in Subjects
             => sock[SubjectOrder[i]] # "new"
    /\ sock' = [sock EXCEPT ![s] = "open"]
    /\ SUBJECTS' = SUBJECTS \cup {s}
    /\ emitted' = ToSid("server_session_id", s)
    /\ UNCHANGED <<CONFIG, subjLock, USER_ROOMS, GAMES, ACTIVE_GAMES, WAITING_GAMES,
                   FREE_MAP, FREE_IDS, RESET_EVENTS, games, threads, loops, faults, budget>>

\* ------------------------------------------------------------------------
\* Taking the two kinds of lock
\* ------------------------------------------------------------------------
\* a handler that enters its critical section without the lock of the subject
C32_EnterUnlocked(t) ==
    /\ emitted' = {}
    /\ Pc(t) = "subject_lock"
    /\ threads' = Goto(t, IF threads[t].op = "join" THEN "join_check" ELSE "leave_get")
    /\ UNCHANGED <<CONFIG, sock, SUBJECTS, subjLock, USER_ROOMS, GAMES, ACTIVE_GAMES,
                   WAITING_GAMES, FREE_MAP, FREE_IDS, RESET_EVENTS, games, loops, faults, budget>>

\* with SUBJECTS[subject_id]: of join, leave_game and disconnect
AcquireSubjectLock(t) ==
    /\ emitted' = {}
    /\ Pc(t) = "subject_lock"
    /\ subjLock[threads[t].subj] = Free
    /\ subjLock' = [subjLock EXCEPT ![threads[t].subj] = t]
    /\ threads' = Goto(t, IF threads[t].op = "join" THEN "join_check" ELSE "leave_get")
    /\ UNCHANGED <<CONFIG, sock, SUBJECTS, USER_ROOMS, GAMES, ACTIVE_GAMES,
                   WAITING_GAMES, FREE_MAP, FREE_IDS, RESET_EVENTS, games, loops, faults, budget>>

\* a handler that takes the lock of the session and then asks for it again, as a
\* second "with game.lock:" inside the first would
C33_AcquireTwice(t) ==
    /\ emitted' = {}
    /\ Pc(t) = "game_lock"
    /\ games[threads[t].game].lock = Free
    /\ games' = [games EXCEPT ![threads[t].game].lock = t]
    /\ UNCHANGED <<CONFIG, sock, SUBJECTS, subjLock, USER_ROOMS, GAMES, ACTIVE_GAMES,
                   WAITING_GAMES, FREE_MAP, FREE_IDS, RESET_EVENTS, threads, loops,
                   faults, budget>>

\* with game.lock: of join_or_create_game and _leave_game
AcquireGameLock(t) ==
    /\ emitted' = {}
    /\ Pc(t) = "game_lock"
    /\ games[threads[t].game].lock = Free
    /\ games' = [games EXCEPT ![threads[t].game].lock = t]
    /\ threads' = Goto(t, IF threads[t].op = "join" THEN "join_body" ELSE "leave_body")
    /\ UNCHANGED <<CONFIG, sock, SUBJECTS, subjLock, USER_ROOMS, GAMES, ACTIVE_GAMES,
                   WAITING_GAMES, FREE_MAP, FREE_IDS, RESET_EVENTS, loops, faults, budget>>

\* ------------------------------------------------------------------------
\* join_or_create_game
\* ------------------------------------------------------------------------
\* the "join" event arrives
join_or_create_game(t, s) ==
    /\ emitted' = {}
    /\ Pc(t) = "idle"
    /\ sock[s] = "open"
    /\ budget.join > 0
    /\ budget' = [budget EXCEPT !.join = @ - 1]
    /\ threads' = [threads EXCEPT ![t] = [IdleThread EXCEPT !.pc = "subject_lock",
                                                           !.op = "join", !.subj = s]]
    /\ UNCHANGED <<CONFIG, sock, SUBJECTS, subjLock, USER_ROOMS, GAMES, ACTIVE_GAMES,
                   WAITING_GAMES, FREE_MAP, FREE_IDS, RESET_EVENTS, games, loops, faults>>

\* if _get_existing_game(subject_id) is not None: return
JoinCheckExisting(t) ==
    /\ emitted' = {}
    /\ Pc(t) = "join_check"
    /\ IF get_existing_game(threads[t].subj) # 0
       THEN /\ threads' = Return(t)
            /\ subjLock' = [subjLock EXCEPT ![threads[t].subj] = Free]
       ELSE /\ threads' = Goto(t, "join_find")
            /\ UNCHANGED subjLock
    /\ UNCHANGED <<CONFIG, sock, SUBJECTS, USER_ROOMS, GAMES, ACTIVE_GAMES,
                   WAITING_GAMES, FREE_MAP, FREE_IDS, RESET_EVENTS, games, loops, faults, budget>>

\* _create_or_join_game: the first get_waiting_game()
JoinFindWaiting(t) ==
    /\ emitted' = {}
    /\ Pc(t) = "join_find"
    /\ threads' = IF get_waiting_game # 0
                  THEN [threads EXCEPT ![t].pc = "game_lock", ![t].game = get_waiting_game]
                  ELSE Goto(t, "join_create")
    /\ UNCHANGED <<CONFIG, sock, SUBJECTS, subjLock, USER_ROOMS, GAMES, ACTIVE_GAMES,
                   WAITING_GAMES, FREE_MAP, FREE_IDS, RESET_EVENTS, games, loops, faults, budget>>

\* try_create_game, as called by _create_game: an id is taken from FREE_IDS and
\* the RemoteGame constructed and registered; constructing may raise
try_create_game(t) ==
    /\ Pc(t) = "join_create"
    /\ IF FREE_IDS = <<>>
       THEN \* queue.Empty: create_game_failed is emitted
            /\ threads' = [threads EXCEPT ![t].pc = "join_find2", ![t].failed = TRUE]
            /\ emitted' = ToSid("create_game_failed", threads[t].subj)
            /\ UNCHANGED <<GAMES, FREE_MAP, FREE_IDS, games, faults, budget>>
       ELSE LET game_id == Head(FREE_IDS)
            IN \E raises \in (IF faults > 0 THEN {FALSE, TRUE} ELSE {FALSE}) :
                 IF raises
                 THEN \* except Exception: the id stays out of FREE_IDS
                      /\ FREE_IDS' = Tail(FREE_IDS)
                      /\ faults' = faults - 1
                      /\ threads' = [threads EXCEPT ![t].pc = "join_find2", ![t].failed = TRUE]
                      /\ emitted' = ToSid("create_game_failed", threads[t].subj)
                      /\ UNCHANGED <<GAMES, FREE_MAP, games>>
                 ELSE /\ CanConstruct
                      /\ FREE_IDS' = Tail(FREE_IDS)
                      /\ games' = [games EXCEPT ![FreshHandle] = NewGame(game_id, Subjects)]
                      /\ GAMES' = [GAMES EXCEPT ![game_id] = FreshHandle]
                      /\ FREE_MAP' = [FREE_MAP EXCEPT ![game_id] = FALSE]
                      /\ threads' = [threads EXCEPT ![t].pc = "join_append",
                                                    ![t].room = game_id]
                      /\ emitted' = {}
                      /\ UNCHANGED faults
    /\ UNCHANGED <<CONFIG, sock, SUBJECTS, subjLock, USER_ROOMS, ACTIVE_GAMES,
                   WAITING_GAMES, RESET_EVENTS, loops, budget>>

\* _create_game: WAITING_GAMES.append(game.game_id)
JoinAppendWaiting(t) ==
    /\ emitted' = {}
    /\ Pc(t) = "join_append"
    /\ Len(WAITING_GAMES) < MaxWaiting
    /\ WAITING_GAMES' = Append(WAITING_GAMES, threads[t].room)
    /\ threads' = Goto(t, "join_find2")
    /\ UNCHANGED <<CONFIG, sock, SUBJECTS, subjLock, USER_ROOMS, GAMES, ACTIVE_GAMES,
                   FREE_MAP, FREE_IDS, RESET_EVENTS, games, loops, faults, budget>>

\* _create_or_join_game: the second get_waiting_game(); None ends the handler
JoinFindCreated(t) ==
    /\ emitted' = {}
    /\ Pc(t) = "join_find2"
    /\ IF get_waiting_game # 0
       THEN /\ threads' = [threads EXCEPT ![t].pc = "game_lock", ![t].game = get_waiting_game]
            /\ UNCHANGED subjLock
       ELSE /\ threads' = Return(t)
            /\ subjLock' = [subjLock EXCEPT ![threads[t].subj] = Free]
    /\ UNCHANGED <<CONFIG, sock, SUBJECTS, USER_ROOMS, GAMES, ACTIVE_GAMES,
                   WAITING_GAMES, FREE_MAP, FREE_IDS, RESET_EVENTS, games, loops, faults, budget>>

\* the body of "with game.lock:" in join_or_create_game
JoinBody(t) ==
    /\ Pc(t) = "join_body"
    /\ LET h == threads[t].game
           g == games[h]
           subject_id == threads[t].subj
           available == get_available_human_player_ids(g)
       IN /\ USER_ROOMS' = [USER_ROOMS EXCEPT ![subject_id] = g.game_id]
          /\ RESET_EVENTS' = [RESET_EVENTS EXCEPT ![g.game_id][subject_id] = "clear"]
          /\ IF available = {}
             THEN \* random.choice([]) raises IndexError
                  /\ games' = Collect([games EXCEPT ![h].lock = Free], GAMES, Return(t), loops)
                  /\ emitted' = {}
                  /\ UNCHANGED <<WAITING_GAMES, ACTIVE_GAMES, loops>>
             ELSE \E player_id \in available :
                    LET joined == add_player(g, player_id, subject_id)
                        unlocked == [games EXCEPT ![h] = [joined EXCEPT !.lock = Free]]
                    IN IF ~is_ready_to_start(joined)
                       THEN /\ games' = Collect(unlocked, GAMES, Return(t), loops)
                            /\ emitted' = ToSid("waiting_room", subject_id)
                            /\ UNCHANGED <<WAITING_GAMES, ACTIVE_GAMES, loops>>
                       ELSE IF ~InSeq(WAITING_GAMES, g.game_id)
                       THEN \* WAITING_GAMES.remove raises ValueError
                            /\ games' = Collect(unlocked, GAMES, Return(t), loops)
                            /\ emitted' = {}
                            /\ UNCHANGED <<WAITING_GAMES, ACTIVE_GAMES, loops>>
                       ELSE /\ CanSpawn
                            /\ emitted' = ToRoom("start_game", g.game_id)
                            /\ games' = unlocked
                            /\ WAITING_GAMES' = RemoveFirst(WAITING_GAMES, g.game_id)
                            /\ ACTIVE_GAMES' = ACTIVE_GAMES \cup {g.game_id}
                            /\ loops' = start_background_task(h)
    /\ threads' = Return(t)
    /\ subjLock' = [subjLock EXCEPT ![threads[t].subj] = Free]
    /\ UNCHANGED <<CONFIG, sock, SUBJECTS, GAMES, FREE_MAP, FREE_IDS, faults, budget>>

\* ------------------------------------------------------------------------
\* _cleanup_game
\* ------------------------------------------------------------------------
\* the loop over game.human_players.values(), from slot i on: each del may raise
\* KeyError, which leaves the deletions made so far
RECURSIVE CleanupPlayers(_, _, _, _)
CleanupPlayers(g, i, rooms, events) ==
    IF i > Len(HumanSlots) THEN [ok |-> TRUE, rooms |-> rooms, events |-> events]
    ELSE LET subject_id == g.human_players[HumanSlots[i]]
         IN IF subject_id = Available THEN CleanupPlayers(g, i + 1, rooms, events)
            ELSE IF rooms[subject_id] = 0
            THEN [ok |-> FALSE, rooms |-> rooms, events |-> events]
            ELSE IF events[g.game_id][subject_id] = "absent"
            THEN [ok |-> FALSE, rooms |-> [rooms EXCEPT ![subject_id] = 0],
                  events |-> events]
            ELSE CleanupPlayers(g, i + 1, [rooms EXCEPT ![subject_id] = 0],
                                [events EXCEPT ![g.game_id][subject_id] = "absent"])

\* _cleanup_game(game) run on the registry as given: what it leaves, and whether
\* it returned (ok) or raised
cleanup_game(g, rooms, events) ==
    IF FREE_MAP[g.game_id]
    THEN \* raise ValueError("Freeing a free game!")
         [ok |-> FALSE, rooms |-> rooms, events |-> events, free_map |-> FREE_MAP,
          free_ids |-> FREE_IDS, registry |-> GAMES, active |-> ACTIVE_GAMES]
    ELSE LET players == CleanupPlayers(g, 1, rooms, events)
         IN IF ~players.ok
            THEN [ok |-> FALSE, rooms |-> players.rooms, events |-> players.events,
                  free_map |-> FREE_MAP, free_ids |-> FREE_IDS, registry |-> GAMES,
                  active |-> ACTIVE_GAMES]
            ELSE [ok |-> TRUE, rooms |-> players.rooms, events |-> players.events,
                  free_map |-> [FREE_MAP EXCEPT ![g.game_id] = TRUE],
                  free_ids |-> Append(FREE_IDS, g.game_id),
                  registry |-> [GAMES EXCEPT ![g.game_id] = 0],
                  active |-> ACTIVE_GAMES \ {g.game_id}]

\* ------------------------------------------------------------------------
\* on_leave and on_disconnect, both through _leave_game
\* ------------------------------------------------------------------------
\* the "leave_game" event arrives
on_leave(t, s) ==
    /\ emitted' = {}
    /\ Pc(t) = "idle"
    /\ sock[s] = "open"
    /\ budget.leave > 0
    /\ budget' = [budget EXCEPT !.leave = @ - 1]
    /\ threads' = [threads EXCEPT ![t] = [IdleThread EXCEPT !.pc = "subject_lock",
                                                           !.op = "leave", !.subj = s]]
    /\ UNCHANGED <<CONFIG, sock, SUBJECTS, subjLock, USER_ROOMS, GAMES, ACTIVE_GAMES,
                   WAITING_GAMES, FREE_MAP, FREE_IDS, RESET_EVENTS, games, loops, faults>>

\* the socket closes: the "disconnect" event arrives, and no event follows it
on_disconnect(t, s) ==
    /\ emitted' = {}
    /\ Pc(t) = "idle"
    /\ sock[s] = "open"
    /\ sock' = [sock EXCEPT ![s] = "closed"]
    /\ budget.disconnect > 0
    /\ budget' = [budget EXCEPT !.disconnect = @ - 1]
    /\ threads' = [threads EXCEPT ![t] = [IdleThread EXCEPT !.pc = "subject_lock",
                                                           !.op = "disconnect", !.subj = s]]
    /\ UNCHANGED <<CONFIG, SUBJECTS, subjLock, USER_ROOMS, GAMES, ACTIVE_GAMES,
                   WAITING_GAMES, FREE_MAP, FREE_IDS, RESET_EVENTS, games, loops, faults>>

\* SUBJECTS after the handler of thread t is over: on_disconnect deletes the
\* subject's lock unless _leave_game raised
SubjectsAfter(t, raised) ==
    IF threads[t].op = "disconnect" /\ ~raised
    THEN SUBJECTS \ {threads[t].subj}
    ELSE SUBJECTS

\* what a leave emits: waiting_room by _leave_game when others stay in a game
\* not active, and by on_leave (not on_disconnect) end_game or end_lobby to the
\* room of the game the subject was in, None (0) when it was in none
LeaveEmits(op, exit_status, game_id) ==
    (IF exit_status = "InactiveWithOtherPlayers"
     THEN ToRoom("waiting_room", game_id) ELSE {})
    \cup (IF op # "leave" THEN {}
          ELSE IF exit_status \in {"ActiveNoPlayers", "ActiveWithOtherPlayers"}
          THEN ToRoom("end_game", game_id)
          ELSE ToRoom("end_lobby", game_id))

\* _leave_game: game = _get_existing_game(subject_id); None returns False
LeaveGetGame(t) ==
    /\ Pc(t) = "leave_get"
    /\ IF get_existing_game(threads[t].subj) = 0
       THEN /\ threads' = Return(t)
            /\ subjLock' = [subjLock EXCEPT ![threads[t].subj] = Free]
            /\ SUBJECTS' = SubjectsAfter(t, FALSE)
            /\ emitted' = LeaveEmits(threads[t].op, "NoGame", 0)
       ELSE /\ threads' = [threads EXCEPT ![t].pc = "game_lock",
                                          ![t].game = get_existing_game(threads[t].subj)]
            /\ emitted' = {}
            /\ UNCHANGED <<subjLock, SUBJECTS>>
    /\ UNCHANGED <<CONFIG, sock, USER_ROOMS, GAMES, ACTIVE_GAMES, WAITING_GAMES,
                   FREE_MAP, FREE_IDS, RESET_EVENTS, games, loops, faults, budget>>

\* an exit status that takes every session left for empty
C18_ExitAsIfEmpty(game_was_active, game_is_empty) ==
    IF game_was_active THEN "ActiveNoPlayers" ELSE "InactiveNoPlayers"

\* the exit status _leave_game computes once the subject is removed
ExitStatus(game_was_active, game_is_empty) ==
    IF game_was_active /\ game_is_empty THEN "ActiveNoPlayers"
    ELSE IF game_is_empty THEN "InactiveNoPlayers"
    ELSE IF ~game_was_active THEN "InactiveWithOtherPlayers"
    ELSE "ActiveWithOtherPlayers"

\* the body of "with game.lock:" in _leave_game
LeaveBody(t) ==
    /\ Pc(t) = "leave_body"
    /\ LET h == threads[t].game
           g == games[h]
           subject_id == threads[t].subj
       IN IF USER_ROOMS[subject_id] = 0
          THEN \* del USER_ROOMS[subject_id] raises KeyError
               /\ games' = Collect([games EXCEPT ![h].lock = Free], GAMES, Return(t), loops)
               /\ SUBJECTS' = SubjectsAfter(t, TRUE)
               /\ emitted' = {}
               /\ UNCHANGED <<USER_ROOMS, RESET_EVENTS, GAMES, ACTIVE_GAMES, FREE_MAP, FREE_IDS>>
          ELSE IF RESET_EVENTS[g.game_id][subject_id] = "absent"
          THEN \* del RESET_EVENTS[game.game_id][subject_id] raises KeyError
               /\ USER_ROOMS' = [USER_ROOMS EXCEPT ![subject_id] = 0]
               /\ games' = Collect([games EXCEPT ![h].lock = Free], GAMES, Return(t), loops)
               /\ SUBJECTS' = SubjectsAfter(t, TRUE)
               /\ emitted' = {}
               /\ UNCHANGED <<RESET_EVENTS, GAMES, ACTIVE_GAMES, FREE_MAP, FREE_IDS>>
          ELSE LET rooms == [USER_ROOMS EXCEPT ![subject_id] = 0]
                   events == [RESET_EVENTS EXCEPT ![g.game_id][subject_id] = "absent"]
                   left == remove_human_player(g, subject_id)
                   exit_status == ExitStatus(g.game_id \in ACTIVE_GAMES,
                                             cur_num_human_players(left) = 0)
                   cleaned == cleanup_game(left, rooms, events)
               IN IF exit_status = "InactiveNoPlayers"
                  THEN /\ USER_ROOMS' = cleaned.rooms
                       /\ RESET_EVENTS' = cleaned.events
                       /\ FREE_MAP' = cleaned.free_map
                       /\ FREE_IDS' = cleaned.free_ids
                       /\ GAMES' = cleaned.registry
                       /\ ACTIVE_GAMES' = cleaned.active
                       /\ games' = Collect([games EXCEPT ![h] = [left EXCEPT !.lock = Free]],
                                         cleaned.registry, Return(t), loops)
                       /\ SUBJECTS' = SubjectsAfter(t, ~cleaned.ok)
                       /\ emitted' = IF cleaned.ok
                                     THEN LeaveEmits(threads[t].op, exit_status, g.game_id)
                                     ELSE {}
                  ELSE /\ USER_ROOMS' = rooms
                       /\ RESET_EVENTS' = events
                       /\ games' = Collect([games EXCEPT ![h] =
                              [(IF exit_status = "InactiveWithOtherPlayers" THEN left
                                ELSE tear_down(left)) EXCEPT !.lock = Free]],
                              GAMES, Return(t), loops)
                       /\ SUBJECTS' = SubjectsAfter(t, FALSE)
                       /\ emitted' = LeaveEmits(threads[t].op, exit_status, g.game_id)
                       /\ UNCHANGED <<GAMES, ACTIVE_GAMES, FREE_MAP, FREE_IDS>>
    /\ threads' = Return(t)
    /\ subjLock' = [subjLock EXCEPT ![threads[t].subj] = Free]
    /\ UNCHANGED <<CONFIG, sock, WAITING_GAMES, loops, faults, budget>>

\* ------------------------------------------------------------------------
\* on_action and RemoteGame.enqueue_action
\* ------------------------------------------------------------------------
\* the lists of pressed keys a client may send
KeyLists == {<<>>} \cup {<<k>> : k \in Keys} \cup {<<k1, k2>> : k1 \in Keys, k2 \in Keys}

\* the first key of the list that action_mapping maps, 0 when none is
FirstMapped(pressed_keys) ==
    LET hit == {i \in 1..Len(pressed_keys) : pressed_keys[i] \in DOMAIN action_mapping}
    IN IF hit = {} THEN 0 ELSE CHOOSE i \in hit : \A j \in hit : i <= j

\* generate_composite_action: action_mapping has no tuple keys, so
\* max_composite_action_size is 0 and the keys are returned as they are
generate_composite_action(pressed_keys) == pressed_keys

\* the action on_action hands to enqueue_action, NoAction when it returns early
ActionOf(pressed_keys, composite) ==
    LET keys == IF Len(pressed_keys) > 1
                THEN (IF ~composite THEN SubSeq(pressed_keys, 1, 1)
                      ELSE generate_composite_action(pressed_keys))
                ELSE pressed_keys
    IN IF Len(pressed_keys) = 0 \/ FirstMapped(keys) = 0 THEN NoAction
       ELSE action_mapping[keys[FirstMapped(keys)]]

\* the two guards of enqueue_action
EnqueueAccepted(g, subject_id) ==
    g.status = Active /\ subject_id \in Occupants(g)

\* the "send_pressed_keys" event arrives with data["pressed_keys"]
on_action(t, s, pressed_keys) ==
    /\ emitted' = {}
    /\ Pc(t) = "idle"
    /\ sock[s] = "open"
    /\ budget.action > 0
    /\ budget' = [budget EXCEPT !.action = @ - 1]
    /\ threads' = [threads EXCEPT ![t] = [IdleThread EXCEPT
                      !.pc = "action_keys", !.op = "action", !.subj = s,
                      !.keys = pressed_keys]]
    /\ UNCHANGED <<CONFIG, sock, SUBJECTS, subjLock, USER_ROOMS, GAMES, ACTIVE_GAMES,
                   WAITING_GAMES, FREE_MAP, FREE_IDS, RESET_EVENTS, games, loops, faults>>

\* the body of on_action and the two guards of enqueue_action: the handler
\* returns, or goes on to the put with the action it found
OnActionBody(t) ==
    /\ emitted' = {}
    /\ Pc(t) = "action_keys"
    /\ LET action == ActionOf(threads[t].keys, CONFIG.game_has_composite_actions)
           h == get_existing_game(threads[t].subj)
       IN IF action = NoAction \/ h = 0
          THEN threads' = Return(t)
          ELSE IF ~EnqueueAccepted(games[h], threads[t].subj)
          THEN threads' = Return(t)
          ELSE threads' = [threads EXCEPT ![t].pc = "action_put", ![t].game = h,
                                          ![t].act = action, ![t].keys = <<>>]
    /\ UNCHANGED <<CONFIG, sock, SUBJECTS, subjLock, USER_ROOMS, GAMES, ACTIVE_GAMES,
                   WAITING_GAMES, FREE_MAP, FREE_IDS, RESET_EVENTS, games, loops, faults,
                   budget>>

\* self.pending_actions[subject_id].put(action): Queue.put blocks while the
\* queue is full, on the queue object it found
EnqueuePut(t) ==
    /\ emitted' = {}
    /\ Pc(t) \in {"action_put", "action_woken"}
    /\ LET h == threads[t].game
           g == games[h]
           subject_id == threads[t].subj
       IN IF Pc(t) = "action_woken" /\ threads[t].gen # g.pending_gen
          THEN \* the put lands in a queue that reset() has replaced
               /\ threads' = Return(t)
               /\ games' = Collect(games, GAMES, Return(t), loops)
          ELSE IF g.pending_actions[subject_id] = NoAction
          THEN /\ games' = Collect([games EXCEPT ![h].pending_actions[subject_id] = threads[t].act],
                                  GAMES, Return(t), loops)
               /\ threads' = Return(t)
          ELSE \* not_full.wait()
               /\ threads' = [threads EXCEPT ![t].pc = "action_wait",
                                             ![t].gen = g.pending_gen]
               /\ UNCHANGED games
    /\ UNCHANGED <<CONFIG, sock, SUBJECTS, subjLock, USER_ROOMS, GAMES, ACTIVE_GAMES,
                   WAITING_GAMES, FREE_MAP, FREE_IDS, RESET_EVENTS, loops, faults, budget>>

\* the subjects whose queue tick's get() empties
Dequeued(g) == {s \in Occupants(g) : g.pending_actions[s] # NoAction}

\* the threads blocked in put on the current queue of subject s of object h
Waiters(h, s) ==
    {t \in Threads : /\ threads[t].pc = "action_wait"
                     /\ threads[t].game = h
                     /\ threads[t].subj = s
                     /\ threads[t].gen = games[h].pending_gen}

\* Queue.get notifies one thread waiting on not_full, for each queue emptied
NotifyChoices(h) ==
    {W \in SUBSET Threads :
        /\ \A t \in W : \E s \in Dequeued(games[h]) : t \in Waiters(h, s)
        /\ \A s \in Dequeued(games[h]) :
              Waiters(h, s) # {} => Cardinality(W \cap Waiters(h, s)) = 1}

Notified(W) ==
    [t \in Threads |-> IF t \in W THEN [threads[t] EXCEPT !.pc = "action_woken"]
                       ELSE threads[t]]

\* ------------------------------------------------------------------------
\* handle_reset_complete
\* ------------------------------------------------------------------------
\* the "reset_complete" event arrives: the subject's event is set
handle_reset_complete(t, s, room) ==
    /\ emitted' = {}
    /\ Pc(t) = "idle"
    /\ sock[s] = "open"
    /\ IF GAMES[room] = 0
       THEN UNCHANGED <<threads, RESET_EVENTS, budget>>
       ELSE /\ budget.reset_complete > 0
            /\ budget' = [budget EXCEPT !.reset_complete = @ - 1]
            /\ RESET_EVENTS' = IF RESET_EVENTS[room][s] = "absent" THEN RESET_EVENTS
                               ELSE [RESET_EVENTS EXCEPT ![room][s] = "set"]
            /\ threads' = [threads EXCEPT ![t] = [IdleThread EXCEPT
                              !.pc = "reset_complete_check", !.op = "reset_complete",
                              !.subj = s, !.game = GAMES[room], !.room = room]]
    /\ UNCHANGED <<CONFIG, sock, SUBJECTS, subjLock, USER_ROOMS, GAMES, ACTIVE_GAMES,
                   WAITING_GAMES, FREE_MAP, FREE_IDS, games, loops, faults>>

\* all(event.is_set() for event in RESET_EVENTS[game_id].values())
all_events_set(game_id) ==
    \A s \in Subjects : RESET_EVENTS[game_id][s] # "clear"

\* if all events are set: game.reset_event.set()
ResetCompleteCheck(t) ==
    /\ emitted' = {}
    /\ Pc(t) = "reset_complete_check"
    /\ games' = Collect(IF all_events_set(threads[t].room)
                        THEN [games EXCEPT ![threads[t].game].reset_event = TRUE]
                        ELSE games,
                        GAMES, Return(t), loops)
    /\ threads' = Return(t)
    /\ UNCHANGED <<CONFIG, sock, SUBJECTS, subjLock, USER_ROOMS, GAMES, ACTIVE_GAMES,
                   WAITING_GAMES, FREE_MAP, FREE_IDS, RESET_EVENTS, loops, faults, budget>>

\* ------------------------------------------------------------------------
\* run_game, the background task of a promoted game
\* ------------------------------------------------------------------------
LoopName(l) == LoopNames[l]

LoopGoto(l, pc) == [loops EXCEPT ![l].pc = pc]

\* the task is over: it returned, or an exception ended it
LoopOver(l) == [loops EXCEPT ![l] = NoLoop]

\* whether the environment may raise now
MayRaise == IF faults > 0 THEN {FALSE, TRUE} ELSE {FALSE}

\* line 518: game.reset(), with no lock held
RunGameStart(l) ==
    /\ emitted' = {}
    /\ loops[l].pc = "start"
    /\ LET h == loops[l].game
       IN \E raises \in MayRaise :
            IF raises
            THEN \* env.reset raises after the queues were replaced
                 /\ games' = Collect([games EXCEPT ![h] = reset_pending_actions(games[h])],
                                   GAMES, threads, LoopOver(l))
                 /\ loops' = LoopOver(l)
                 /\ faults' = faults - 1
            ELSE /\ games' = [games EXCEPT ![h] = reset(games[h])]
                 /\ loops' = LoopGoto(l, "check")
                 /\ UNCHANGED faults
    /\ UNCHANGED <<CONFIG, sock, SUBJECTS, subjLock, USER_ROOMS, GAMES, ACTIVE_GAMES,
                   WAITING_GAMES, FREE_MAP, FREE_IDS, RESET_EVENTS, threads, budget>>

\* line 524: while game.status not in end_status
RunGameCheck(l) ==
    /\ emitted' = {}
    /\ loops[l].pc = "check"
    /\ loops' = LoopGoto(l, IF games[loops[l].game].status \in {Inactive, Done}
                            THEN "end_lock" ELSE "tick_lock")
    /\ UNCHANGED <<CONFIG, sock, SUBJECTS, subjLock, USER_ROOMS, GAMES, ACTIVE_GAMES,
                   WAITING_GAMES, FREE_MAP, FREE_IDS, RESET_EVENTS, games, threads, faults, budget>>

\* lines 526, 554, 561: with game.lock
RunGameAcquire(l) ==
    /\ emitted' = {}
    /\ loops[l].pc \in {"tick_lock", "reset_lock", "end_lock"}
    /\ games[loops[l].game].lock = Free
    /\ games' = [games EXCEPT ![loops[l].game].lock = LoopName(l)]
    /\ loops' = LoopGoto(l, CASE loops[l].pc = "tick_lock" -> "tick"
                              [] loops[l].pc = "reset_lock" -> "reset"
                              [] OTHER -> "end")
    /\ UNCHANGED <<CONFIG, sock, SUBJECTS, subjLock, USER_ROOMS, GAMES, ACTIVE_GAMES,
                   WAITING_GAMES, FREE_MAP, FREE_IDS, RESET_EVENTS, threads, faults, budget>>

\* the outcomes of env.step: whether the episode ended (terminated or truncated)
StepOutcomes(g) == IF g.tick_num + 1 >= MaxSteps THEN {TRUE} ELSE {FALSE, TRUE}

\* line 527: game.tick() under the lock
RunGameTick(l) ==
    /\ emitted' = {}
    /\ loops[l].pc = "tick"
    /\ LET h == loops[l].game
           g == games[h]
       IN \E W \in NotifyChoices(h) :
            /\ threads' = Notified(W)
            /\ \E raises \in MayRaise :
                 IF raises
                 THEN \* env.step raises: the task dies, the lock is released
                      /\ games' = Collect([games EXCEPT ![h] =
                                     [take_player_actions(g) EXCEPT !.lock = Free]],
                                     GAMES, Notified(W), LoopOver(l))
                      /\ loops' = LoopOver(l)
                      /\ faults' = faults - 1
                 ELSE \E ended \in StepOutcomes(g) :
                      /\ games' = [games EXCEPT ![h] =
                                     [tick(g, ended, CONFIG.num_episodes) EXCEPT !.lock = Free]]
                      /\ loops' = LoopGoto(l, "after_tick")
                      /\ UNCHANGED faults
    /\ UNCHANGED <<CONFIG, sock, SUBJECTS, subjLock, USER_ROOMS, GAMES, ACTIVE_GAMES,
                   WAITING_GAMES, FREE_MAP, FREE_IDS, RESET_EVENTS, budget>>

\* line 534: if game.status == GameStatus.Reset, after render and sleep
RunGameAfterTick(l) ==
    /\ loops[l].pc = "after_tick"
    /\ emitted' = IF games[loops[l].game].status = Reset
                  THEN ToRoom("game_reset", games[loops[l].game].game_id) ELSE {}
    /\ loops' = LoopGoto(l, IF games[loops[l].game].status = Reset
                            THEN "wait" ELSE "check")
    /\ games' = [games EXCEPT ![loops[l].game].player_actions =
                                 [p \in SlotSet |-> default_action],
                              ![loops[l].game].ended = FALSE,
                              ![loops[l].game].policy_calls = {}]
    /\ UNCHANGED <<CONFIG, sock, SUBJECTS, subjLock, USER_ROOMS, GAMES, ACTIVE_GAMES,
                   WAITING_GAMES, FREE_MAP, FREE_IDS, RESET_EVENTS, threads, faults, budget>>

\* lines 545-552: game.reset_event.wait() returns; the events are cleared
RunGameWait(l) ==
    /\ emitted' = {}
    /\ loops[l].pc = "wait"
    /\ LET h == loops[l].game
           game_id == games[h].game_id
       IN /\ games[h].reset_event
          /\ RESET_EVENTS' = [RESET_EVENTS EXCEPT ![game_id] =
                 [s \in Subjects |-> IF RESET_EVENTS[game_id][s] = "absent"
                                     THEN "absent" ELSE "clear"]]
          /\ games' = [games EXCEPT ![h].reset_event = FALSE]
    /\ loops' = LoopGoto(l, "reset_lock")
    /\ UNCHANGED <<CONFIG, sock, SUBJECTS, subjLock, USER_ROOMS, GAMES, ACTIVE_GAMES,
                   WAITING_GAMES, FREE_MAP, FREE_IDS, threads, faults, budget>>

\* line 555: game.reset() under the lock
RunGameReset(l) ==
    /\ emitted' = {}
    /\ loops[l].pc = "reset"
    /\ LET h == loops[l].game
       IN \E raises \in MayRaise :
            IF raises
            THEN /\ games' = Collect([games EXCEPT ![h] =
                                [reset_pending_actions(games[h]) EXCEPT !.lock = Free]],
                                GAMES, threads, LoopOver(l))
                 /\ loops' = LoopOver(l)
                 /\ faults' = faults - 1
            ELSE /\ games' = [games EXCEPT ![h] = [reset(games[h]) EXCEPT !.lock = Free]]
                 /\ loops' = LoopGoto(l, "check")
                 /\ UNCHANGED faults
    /\ UNCHANGED <<CONFIG, sock, SUBJECTS, subjLock, USER_ROOMS, GAMES, ACTIVE_GAMES,
                   WAITING_GAMES, FREE_MAP, FREE_IDS, RESET_EVENTS, threads, budget>>

\* lines 561-569: tear_down unless Inactive, then end_game to the room
RunGameEnd(l) ==
    /\ loops[l].pc = "end"
    /\ LET h == loops[l].game
           g == games[h]
       IN /\ games' = [games EXCEPT ![h] = IF g.status # Inactive THEN tear_down(g) ELSE g]
          /\ emitted' = ToRoom("end_game", g.game_id)
    /\ loops' = LoopGoto(l, "cleanup")
    /\ UNCHANGED <<CONFIG, sock, SUBJECTS, subjLock, USER_ROOMS, GAMES, ACTIVE_GAMES,
                   WAITING_GAMES, FREE_MAP, FREE_IDS, RESET_EVENTS, threads, faults, budget>>

\* line 571: _cleanup_game(game), which ends the task and releases the lock
RunGameCleanup(l) ==
    /\ loops[l].pc = "cleanup"
    /\ LET h == loops[l].game
           g == games[h]
           cleaned == cleanup_game(g, USER_ROOMS, RESET_EVENTS)
       IN /\ games' = Collect([games EXCEPT ![h].lock = Free],
                            cleaned.registry, threads, LoopOver(l))
          /\ USER_ROOMS' = cleaned.rooms
          /\ RESET_EVENTS' = cleaned.events
          /\ FREE_MAP' = cleaned.free_map
          /\ FREE_IDS' = cleaned.free_ids
          /\ GAMES' = cleaned.registry
          /\ ACTIVE_GAMES' = cleaned.active
    /\ loops' = LoopOver(l)
    /\ emitted' = {}
    /\ UNCHANGED <<CONFIG, sock, SUBJECTS, subjLock, WAITING_GAMES, threads, faults, budget>>

\* ------------------------------------------------------------------------
\* The system
\* ------------------------------------------------------------------------
\* the steps of join_or_create_game, on_leave and on_disconnect
LobbyStep(t) ==
    \/ AcquireSubjectLock(t)
    \/ AcquireGameLock(t)
    \/ JoinCheckExisting(t)
    \/ JoinFindWaiting(t)
    \/ try_create_game(t)
    \/ JoinAppendWaiting(t)
    \/ JoinFindCreated(t)
    \/ JoinBody(t)
    \/ LeaveGetGame(t)
    \/ LeaveBody(t)

\* the steps of run_game outside the reset of a finished episode
LoopStep(l) ==
    \/ RunGameStart(l)
    \/ RunGameCheck(l)
    \/ RunGameAcquire(l)
    \/ RunGameTick(l)
    \/ RunGameAfterTick(l)
    \/ RunGameEnd(l)
    \/ RunGameCleanup(l)

\* the steps of run_game that reset the game between episodes
BarrierStep(l) ==
    \/ RunGameWait(l)
    \/ RunGameReset(l)

LobbyEvent ==
    \/ \E s \in Subjects : on_connect(s)
    \/ \E t \in Threads, s \in Subjects : join_or_create_game(t, s)
    \/ \E t \in Threads, s \in Subjects : on_leave(t, s)

DisconnectEvent ==
    \E t \in Threads, s \in Subjects : on_disconnect(t, s)

ActionEvent ==
    \E t \in Threads, s \in Subjects, pressed_keys \in KeyLists : on_action(t, s, pressed_keys)

ResetCompleteEvent ==
    \E t \in Threads, s \in Subjects, room \in Ids : handle_reset_complete(t, s, room)

\* clients that join, leave and disconnect; games of one episode
LobbyNext ==
    \/ LobbyEvent
    \/ DisconnectEvent
    \/ \E t \in Threads : LobbyStep(t)
    \/ \E l \in 1..MaxLoops : LoopStep(l)

\* clients that also send their keys
PlayNext ==
    \/ LobbyEvent
    \/ ActionEvent
    \/ \E t \in Threads : LobbyStep(t) \/ OnActionBody(t) \/ EnqueuePut(t)
    \/ \E l \in 1..MaxLoops : LoopStep(l)

\* clients that also acknowledge resets; games of several episodes
BarrierNext ==
    \/ LobbyEvent
    \/ ResetCompleteEvent
    \/ \E t \in Threads : LobbyStep(t) \/ ResetCompleteCheck(t)
    \/ \E l \in 1..MaxLoops : LoopStep(l) \/ BarrierStep(l)

\* every event and every step
Next ==
    \/ LobbyEvent
    \/ DisconnectEvent
    \/ ActionEvent
    \/ ResetCompleteEvent
    \/ \E t \in Threads : LobbyStep(t) \/ OnActionBody(t) \/ EnqueuePut(t) \/ ResetCompleteCheck(t)
    \/ \E l \in 1..MaxLoops : LoopStep(l) \/ BarrierStep(l)

Events(j, l, d, a, r) ==
    [join |-> j, leave |-> l, disconnect |-> d, action |-> a, reset_complete |-> r]

Config(n, episodes) ==
    [max_concurrent_games |-> n, num_episodes |-> episodes,
     game_has_composite_actions |-> FALSE, human_slots |-> <<"p0", "p1">>,
     bot_slots |-> {"npc"}, frame_skip |-> FrameSkip]

\* the same with a policy_mapping of three human agents
TrioConfig(n, episodes) ==
    [Config(n, episodes) EXCEPT !.human_slots = <<"p0", "p1", "p2">>]

\* a handler that has started runs on; so does a run_game task
HandlerStep(t) ==
    LobbyStep(t) \/ OnActionBody(t) \/ EnqueuePut(t) \/ ResetCompleteCheck(t)

TaskStep(l) == LoopStep(l) \/ BarrierStep(l)

Scheduling ==
    /\ \A t \in ThreadNames : WF_vars(HandlerStep(t))
    /\ \A l \in 1..MaxLoops : WF_vars(TaskStep(l))

\* one id, games of one episode, two clients, two handler threads, an
\* environment that may fail
Init ==
    InitWith(Config(1, 1), {"a", "b"}, ThreadNames, MaxFaults,
             Events(MaxJoins, MaxLeaves, MaxDisconnects, 0, 0))

Spec == Init /\ [][LobbyNext]_vars

\* the same with clients that send keys, and an environment that does not fail
PlayInit ==
    InitWith(Config(1, 1), {"a", "b"}, ThreadNames, 0,
             Events(PlayJoins, PlayLeaves, 0, MaxActions, 0))

PlaySpec == PlayInit /\ [][PlayNext]_vars

\* games of two episodes, with clients that acknowledge resets
BarrierInit ==
    InitWith(Config(1, MaxEpisodes), {"a", "b"}, ThreadNames, 0,
             Events(PlayJoins, MaxLeaves, 0, 0, MaxResetCompletes))

BarrierSpec == BarrierInit /\ [][BarrierNext]_vars

FairBarrierSpec == BarrierSpec /\ Scheduling

\* three clients for the two human slots, their events handled one at a time
CrowdInit ==
    InitWith(Config(1, MaxEpisodes), {"a", "b", "c"}, {"t1"}, 0,
             Events(CrowdJoins, PlayLeaves, 0, 0, MaxResetCompletes))

CrowdSpec == CrowdInit /\ [][BarrierNext]_vars

\* games of three human agents, three clients and one handler thread
TrioInit ==
    InitWith(TrioConfig(1, 1), {"a", "b", "c"}, {"t1"}, 0,
             Events(CrowdJoins, MaxLeaves, MaxDisconnects, 0, 0))

TrioSpec == TrioInit /\ [][LobbyNext]_vars

\* one game id, one episode, three clients: a game that ends, and a client
\* that joins after it
EndInit ==
    InitWith(Config(1, 1), {"a", "b", "c"}, {"t1"}, 0,
             Events(EndJoins, PlayLeaves, MaxDisconnects, 0, 0))

EndSpec == EndInit /\ [][LobbyNext]_vars

\* the one handler thread and the run_game tasks run on
FairEndSpec ==
    EndSpec /\ WF_vars(HandlerStep("t1")) /\ (\A l \in 1..MaxLoops : WF_vars(TaskStep(l)))

\* two game ids, one episode, two clients and two handler threads: two
\* sessions can be live at the same time
PairInit ==
    InitWith(Config(MaxIds, 1), {"a", "b"}, ThreadNames, 0,
             Events(PlayJoins, PlayLeaves, MaxDisconnects, 0, 0))

PairSpec == PairInit /\ [][LobbyNext]_vars

\* ------------------------------------------------------------------------
\* The registry of ids
\* ------------------------------------------------------------------------
\* C1: every id is in exactly one of the free pool FREE_IDS and the live
\* sessions GAMES, and no id is in FREE_IDS twice: no id is lost or duplicated
C1_IdsPartitioned ==
    /\ \A i \in Ids : InSeq(FREE_IDS, i) # (GAMES[i] # 0)
    /\ \A j, k \in 1..Len(FREE_IDS) : FREE_IDS[j] = FREE_IDS[k] => j = k

\* ------------------------------------------------------------------------
\* Sessions and their game loops
\* ------------------------------------------------------------------------
\* C2: a session whose status is Active has no human slot that is Available
C2_ActiveIsFull ==
    \A h \in Handles : games[h].status = Active => is_at_player_capacity(games[h])

\* C3: no two run_game tasks drive the same session at the same time (a
\* session is promoted, and its task spawned, at most once)
C3_OneTaskPerSession ==
    \A l, k \in 1..MaxLoops :
        (l # k /\ loops[l].pc # "off" /\ loops[k].pc # "off")
            => loops[l].game # loops[k].game

\* ------------------------------------------------------------------------
\* Actions
\* ------------------------------------------------------------------------
\* the slot a subject holds in a game
SlotOf(g, subject_id) == HumanSlots[FirstSlotOf(g, subject_id)]

\* C4: most recent wins: when an identity's enqueue_action(a2) was called after
\* its enqueue_action(a1) and before the tick, the tick applies a2 for the
\* identity's slot; here the later call is the one the tick has just woken
C4_MostRecentWins ==
    \A l \in 1..MaxLoops, t \in Threads :
        LET h == loops[l].game
        IN (/\ loops[l].pc = "after_tick"
            /\ threads[t].pc = "action_woken"
            /\ threads[t].game = h
            /\ threads[t].gen = games[h].pending_gen
            /\ threads[t].subj \in Occupants(games[h]))
           => games[h].player_actions[SlotOf(games[h], threads[t].subj)] = threads[t].act

\* C5: enqueue_action never blocks its caller: no on_action handler waits for
\* room in a queue
C5_EnqueueNeverWaits ==
    \A t \in Threads : threads[t].pc # "action_wait"

\* ------------------------------------------------------------------------
\* Joining twice
\* ------------------------------------------------------------------------
\* the connection holds a human slot of a live session
Joined(s) == \E i \in Ids : GAMES[i] # 0 /\ s \in Occupants(games[GAMES[i]])

\* thread t takes a step of a join handler of connection s
JoinStepOf(t, s) ==
    /\ threads'[t] # threads[t]
    /\ \/ threads[t].op = "join" /\ threads[t].subj = s
       \/ threads'[t].op = "join" /\ threads'[t].subj = s

\* C6: a join from a connection that is already joined changes nothing: every
\* step of its handler leaves the connection's session, all slots, the waiting
\* list, the free pool and the live sessions as they are, and the handler
\* goes no further than the check for an existing game
C6_JoinIdempotent ==
    [][\A t \in Threads, s \in Subjects :
          (JoinStepOf(t, s) /\ Joined(s))
             => /\ UNCHANGED <<USER_ROOMS, GAMES, WAITING_GAMES, FREE_IDS, FREE_MAP,
                               ACTIVE_GAMES, RESET_EVENTS, games, loops>>
                /\ threads'[t].pc \in {"subject_lock", "join_check", "idle"}]_vars

\* a joined connection's second join has reached the check for an existing game
C6_SecondJoin ==
    \E t \in Threads :
        /\ threads[t].op = "join"
        /\ threads[t].pc = "join_check"
        /\ Joined(threads[t].subj)
        /\ get_existing_game(threads[t].subj) # 0

\* ------------------------------------------------------------------------
\* The first activation
\* ------------------------------------------------------------------------
\* C7: a session's status becomes Active for the first time only with all of its
\* human slots occupied: no leave comes between the join that fills the last
\* slot and the first Active
C7_FirstActiveIsFull ==
    [][\A h \in Handles :
          (/\ games[h].game_id # 0
           /\ games[h].episode_num = 0
           /\ games[h].status # Active
           /\ games'[h].status = Active)
             => is_at_player_capacity(games'[h])]_vars

\* ------------------------------------------------------------------------
\* The last participant leaves an active session
\* ------------------------------------------------------------------------
\* the promoted session of id i is live and has no human participant left
ActiveEmptied(i) ==
    /\ i \in Ids
    /\ i \in ACTIVE_GAMES
    /\ GAMES[i] # 0
    /\ Occupants(games[GAMES[i]]) = {}

\* C8: when the last human participant of an active session leaves, the leave
\* handler sets the status to Inactive and does not release the id; the
\* run_game task then eventually releases the id, and releases it once
C8_LastLeaveReleasesId ==
    /\ [][\A i \in 1..MaxIds :
            (~ActiveEmptied(i) /\ ActiveEmptied(i)')
               => /\ games'[GAMES'[i]].status = Inactive
                  /\ FREE_IDS' = FREE_IDS]_vars
    /\ \A i \in 1..MaxIds : ActiveEmptied(i) ~> (i \in Ids /\ InSeq(FREE_IDS, i))
    /\ [](\A j, k \in 1..Len(FREE_IDS) : FREE_IDS[j] = FREE_IDS[k] => j = k)

\* the bounds of the model stop no handler: a step the code would take is
\* never held back for want of a handle, a task slot or room in the list
BoundsStopNothing ==
    \A t \in Threads :
        /\ Pc(t) = "join_append" => Len(WAITING_GAMES) < MaxWaiting
        /\ (Pc(t) = "join_create" /\ FREE_IDS # <<>>) => CanConstruct
        /\ (/\ Pc(t) = "join_body"
            /\ Cardinality(get_available_human_player_ids(games[threads[t].game])) = 1
            /\ InSeq(WAITING_GAMES, games[threads[t].game].game_id)) => CanSpawn

\* ------------------------------------------------------------------------
\* The reset barrier
\* ------------------------------------------------------------------------
\* the keys of RESET_EVENTS[game_id]: the subjects the barrier waits for
PendingSet(game_id) == {s \in Subjects : RESET_EVENTS[game_id][s] # "absent"}

\* every participant in a human slot of the session has acknowledged
AllAcknowledged(game_id) ==
    \A s \in Occupants(games[GAMES[game_id]]) : RESET_EVENTS[game_id][s] = "set"

\* C9: the pending set of a live session's barrier is exactly the set of
\* identities in its human slots, and the barrier counts as passed iff every
\* one of them has acknowledged
C9_BarrierPendingSet ==
    \A i \in Ids :
        GAMES[i] # 0
           => /\ PendingSet(i) = Occupants(games[GAMES[i]])
              /\ all_events_set(i) <=> AllAcknowledged(i)

\* the task waits at the barrier while a participant who has not acknowledged
\* is leaving (its handler holds the session lock), and every other
\* participant, if any, has acknowledged
UnacknowledgedLeaves(l) ==
    /\ loops[l].pc = "wait"
    /\ \E t \in Threads :
          LET g == games[loops[l].game]
          IN /\ Pc(t) = "leave_body"
             /\ threads[t].game = loops[l].game
             /\ threads[t].subj \in Occupants(g)
             /\ RESET_EVENTS[g.game_id][threads[t].subj] = "clear"
             /\ \A s \in Occupants(g) \ {threads[t].subj} :
                   RESET_EVENTS[g.game_id][s] = "set"

\* C10: a participant who leaves during the barrier wait without having
\* acknowledged does not block the barrier: when everyone else has
\* acknowledged (or no one else is left), the run_game task eventually leaves
\* the wait
C10_LeaverNeverBlocksBarrier ==
    \A l \in 1..MaxLoops : UnacknowledgedLeaves(l) ~> (loops[l].pc # "wait")

\* the run_game task l has sent end_game for a full game that nobody left, and
\* no client but its two players has issued a join: the episode is over,
\* _cleanup_game is still to run, and the join of the third client is to come
EndGameSent(l) ==
    /\ loops[l].pc = "cleanup"
    /\ is_at_player_capacity(games[loops[l].game])
    /\ budget.leave = PlayLeaves
    /\ budget.disconnect = MaxDisconnects
    /\ budget.join = EndJoins - Len(HumanSlots)

\* the join of connection s has arrived at handler thread t
JoinArrived(t, s) ==
    /\ Pc(t) # "idle"
    /\ threads[t].op = "join"
    /\ threads[t].subj = s

\* the capacity error goes to connection s
CapacityError(s) == \E e \in emitted : e.event = "create_game_failed" /\ e.to = s

\* C11: with one game id, one episode and two human slots, once end_game has
\* been sent to the two players of a finished game, a join by a third client
\* issued from then on places the client in a game and never yields the
\* capacity error
C11_JoinAfterEndSucceeds ==
    \A l \in 1..MaxLoops :
       [](EndGameSent(l) => /\ [](~CapacityError("c"))
                            /\ [](JoinArrived("t1", "c") => <>Joined("c")))

\* game id i is a session that waits for players: live, not promoted, and with
\* a slot still Available
Waiting(i) ==
    /\ GAMES[i] # 0
    /\ i \notin ACTIVE_GAMES
    /\ ~is_at_player_capacity(games[GAMES[i]])

\* no id is free and no session is waiting
NoCapacity == FREE_IDS = <<>> /\ \A i \in Ids : ~Waiting(i)

\* the human slots of every RemoteGame object
AllSlots == [h \in Handles |-> games[h].human_players]

\* the handler of thread t is inside _create_or_join_game
Resolving(t) == Pc(t) \in {"join_find", "join_create", "join_find2"}

\* C12: when no id is free and no session is waiting, the steps by which a join
\* resolves its game change no connection mapping, barrier entry or slot, leave
\* the free pool, the live sessions and the waiting list as they are, send the
\* requester the capacity error where a game would be created, and never go on
\* to a game's lock or wait for anything
C12_CapacityErrorOnly ==
    [][\A t \in Threads, s \in Subjects :
          (JoinStepOf(t, s) /\ Resolving(t) /\ NoCapacity)
             => /\ UNCHANGED <<USER_ROOMS, RESET_EVENTS, FREE_IDS, FREE_MAP, GAMES,
                               WAITING_GAMES, ACTIVE_GAMES>>
                /\ AllSlots' = AllSlots
                /\ threads'[t].pc \in {"join_create", "join_find2", "idle"}
                /\ (Pc(t) = "join_create" => CapacityError(s)')]_vars

\* _cleanup_game runs in this step on the RemoteGame object h: as the last
\* statement of a run_game task, or in _leave_game for a session not active
\* that the leaver was the last to leave
CleanupOf(h) ==
    \/ \E l \in 1..MaxLoops :
          loops[l].pc = "cleanup" /\ loops[l].game = h /\ loops'[l].pc = "off"
    \/ \E t \in Threads :
          /\ Pc(t) = "leave_body" /\ threads[t].game = h /\ threads'[t].pc = "idle"
          /\ USER_ROOMS[threads[t].subj] # 0
          /\ RESET_EVENTS[games[h].game_id][threads[t].subj] # "absent"
          /\ ExitStatus(games[h].game_id \in ACTIVE_GAMES,
                        cur_num_human_players(remove_human_player(games[h], threads[t].subj)) = 0)
               = "InactiveNoPlayers"

\* the session h is one cleanup has nothing to do for: its id is marked free,
\* or belongs by now to another live session
Stale(h) == FREE_MAP[games[h].game_id] \/ GAMES[games[h].game_id] # h

\* C13: _cleanup_game for a session whose id is already marked free, or whose
\* id a newer live session holds, changes nothing: the id goes into the free
\* pool no second time, and no live session is removed or freed
C13_StaleCleanupHarmless ==
    [][\A h \in Handles :
          (CleanupOf(h) /\ Stale(h))
             => UNCHANGED <<GAMES, FREE_IDS, FREE_MAP, ACTIVE_GAMES>>]_vars

\* how often game id i is in WAITING_GAMES
TimesWaiting(i) == Cardinality({k \in 1..Len(WAITING_GAMES) : WAITING_GAMES[k] = i})

\* C14: every entry of WAITING_GAMES is the id of a live session that still has
\* an Available slot, no id is in the list twice, and an id leaves the list
\* only when its session has become full
C14_WaitingListSound ==
    /\ [](\A i \in 1..MaxIds :
            (i \in Ids /\ TimesWaiting(i) > 0)
               => /\ TimesWaiting(i) = 1
                  /\ GAMES[i] # 0
                  /\ ~is_at_player_capacity(games[GAMES[i]]))
    /\ [][\A i \in 1..MaxIds :
            (i \in Ids /\ TimesWaiting(i)' < TimesWaiting(i))
               => /\ TimesWaiting(i)' = 0
                  /\ GAMES'[i] # 0
                  /\ is_at_player_capacity(games'[GAMES'[i]])]_vars

\* the join handler t of connection s, past the check for an existing game,
\* returns or dies in this step
JoinReturns(t, s) ==
    /\ threads[t].op = "join"
    /\ threads[t].subj = s
    /\ Pc(t) \in {"join_find2", "join_body"}
    /\ threads'[t].pc = "idle"

\* after the step connection s holds a slot of the RemoteGame object h, which
\* GAMES holds under its id, and the connection maps to that id
PlacedIn(s, h) ==
    /\ h # 0
    /\ GAMES'[games[h].game_id] = h
    /\ s \in Occupants(games'[h])
    /\ USER_ROOMS'[s] = games[h].game_id

\* after the step nothing records connection s as joined
Unjoined(s) ==
    /\ USER_ROOMS'[s] = 0
    /\ \A i \in Ids : RESET_EVENTS'[i][s] = "absent"
    /\ \A h \in Handles : s \notin Occupants(games'[h])

\* C15: a join by a connection not yet joined ends in one of three ways: the
\* connection is placed in the session it took from the head of the waiting
\* list, or in the session this join created, or it was sent the capacity
\* error, created nothing and is recorded nowhere; it never ends unjoined
\* without the error, and never leaves behind a session it created and is not in
C15_ThreeOutcomes ==
    [][\A t \in Threads, s \in Subjects :
          JoinReturns(t, s)
             => \/ /\ PlacedIn(s, threads[t].game)
                   /\ ~threads[t].failed
                   /\ threads[t].room \in {0, games[threads[t].game].game_id}
                \/ /\ threads[t].failed
                   /\ threads[t].room = 0
                   /\ Unjoined(s)]_vars

\* in this step the leave or disconnect handler t runs _leave_game for the only
\* participant of a live session that was never promoted
LastWaitingLeave(t) ==
    /\ Pc(t) = "leave_body"
    /\ threads'[t].pc = "idle"
    /\ LET h == threads[t].game
           g == games[h]
       IN /\ GAMES[g.game_id] = h
          /\ g.game_id \notin ACTIVE_GAMES
          /\ Occupants(g) = {threads[t].subj}
          /\ USER_ROOMS[threads[t].subj] = g.game_id
          /\ RESET_EVENTS[g.game_id][threads[t].subj] # "absent"

\* after the step nothing in the registry refers to game id i, and the id is
\* in the free pool, once
Released(i) ==
    /\ GAMES'[i] = 0
    /\ FREE_MAP'[i]
    /\ Cardinality({k \in 1..Len(FREE_IDS') : FREE_IDS'[k] = i}) = 1
    /\ i \notin ACTIVE_GAMES'
    /\ ~InSeq(WAITING_GAMES', i)
    /\ \A s \in Subjects : USER_ROOMS'[s] # i /\ RESET_EVENTS'[i][s] = "absent"

\* C16: when the last participant of a session that still waits leaves, the
\* leave handler itself cleans the session up: the session is no longer live,
\* its id is in the free pool, and no registry structure refers to it any
\* more, so that the next join finds a clean registry
C16_LastWaitingLeaveCleans ==
    [][\A t \in Threads :
          LastWaitingLeave(t) => Released(games[threads[t].game].game_id)]_vars

\* in this step the leave or disconnect handler t takes a participant out of a
\* live active session in which other participants stay
ActiveLeave(t) ==
    /\ Pc(t) = "leave_body"
    /\ threads'[t].pc = "idle"
    /\ LET h == threads[t].game
           g == games[h]
           s == threads[t].subj
       IN /\ GAMES[g.game_id] = h
          /\ g.game_id \in ACTIVE_GAMES
          /\ s \in Occupants(g)
          /\ Occupants(g) # {s}
          /\ USER_ROOMS[s] = g.game_id
          /\ RESET_EVENTS[g.game_id][s] # "absent"

\* game id i is a live active session that a participant has left and in
\* which others remain
ActiveLeft(i) ==
    /\ i \in Ids
    /\ i \in ACTIVE_GAMES
    /\ GAMES[i] # 0
    /\ Occupants(games[GAMES[i]]) # {}
    /\ ~is_at_player_capacity(games[GAMES[i]])

\* the run_game task l executes game.tick() in this step
TickStep(l) == loops[l].pc = "tick" /\ loops'[l].pc # "tick"

\* C17: when a participant leaves an active session in which others remain,
\* the session is Inactive when the leave handler returns, it is never ticked
\* as an Active session with a slot Available, and the run_game task
\* eventually releases its id
C17_LeaveTearsDown ==
    /\ [][\A t \in Threads :
            ActiveLeave(t) => games'[threads[t].game].status = Inactive]_vars
    /\ [][\A l \in 1..MaxLoops :
            TickStep(l) => ~(/\ games[loops[l].game].status = Active
                             /\ ~is_at_player_capacity(games[loops[l].game]))]_vars
    /\ \A i \in 1..MaxIds : ActiveLeft(i) ~> (i \in Ids /\ InSeq(FREE_IDS, i))

\* in this step the leave or disconnect handler t takes a participant out of a
\* live session that was never promoted and in which other participants stay
WaitingLeave(t) ==
    /\ Pc(t) = "leave_body"
    /\ threads'[t].pc = "idle"
    /\ LET h == threads[t].game
           g == games[h]
           s == threads[t].subj
       IN /\ GAMES[g.game_id] = h
          /\ g.game_id \notin ACTIVE_GAMES
          /\ s \in Occupants(g)
          /\ Occupants(g) # {s}
          /\ USER_ROOMS[s] = g.game_id
          /\ RESET_EVENTS[g.game_id][s] # "absent"

\* C18: when a participant leaves a waiting session in which others remain,
\* only the leaver's slot, connection mapping and barrier entry change: the
\* session stays live and in the waiting list with status Inactive, its id is
\* not released, no task is started or ended, and every other participant
\* keeps its slot and its mapping
C18_WaitingLeaveFrame ==
    [][\A t \in Threads :
          WaitingLeave(t)
             => LET h == threads[t].game
                    g == games[h]
                    s == threads[t].subj
                IN /\ UNCHANGED <<GAMES, FREE_IDS, FREE_MAP, ACTIVE_GAMES,
                                  WAITING_GAMES, loops>>
                   /\ InSeq(WAITING_GAMES', g.game_id)
                   /\ games'[h].status = Inactive
                   /\ games'[h].human_players =
                         [p \in SlotSet |-> IF g.human_players[p] = s THEN Available
                                            ELSE g.human_players[p]]
                   /\ \A k \in Handles : k # h => games'[k] = games[k]
                   /\ USER_ROOMS' = [USER_ROOMS EXCEPT ![s] = 0]
                   /\ RESET_EVENTS' = [RESET_EVENTS EXCEPT ![g.game_id][s] = "absent"]]_vars

\* a participant has just left a waiting session in which another remains
C18_LeftOthersWaiting ==
    \E i \in Ids :
       /\ Waiting(i)
       /\ Occupants(games[GAMES[i]]) # {}
       /\ \E e \in emitted : e.event = "waiting_room" /\ e.to = "room" /\ e.game = i

\* thread t takes a step of a leave_game or disconnect handler of connection s
LeaveStepOf(t, s) ==
    /\ threads'[t] # threads[t]
    /\ \/ threads[t].op \in {"leave", "disconnect"} /\ threads[t].subj = s
       \/ threads'[t].op \in {"leave", "disconnect"} /\ threads'[t].subj = s

\* connection s is joined to no session: it maps to none and holds no slot
NotJoined(s) ==
    /\ USER_ROOMS[s] = 0
    /\ \A h \in Handles : s \notin Occupants(games[h])

\* C19: a leave or disconnect from a connection that is joined to no session
\* is a no-op: no step of its handler changes a session, a slot, the waiting
\* list, the id pool, a connection mapping or a barrier entry, and none
\* delivers an event to any other connection
C19_UnjoinedLeaveNoOp ==
    [][\A t \in Threads, s \in Subjects :
          (LeaveStepOf(t, s) /\ NotJoined(s))
             => /\ UNCHANGED <<USER_ROOMS, GAMES, WAITING_GAMES, FREE_IDS, FREE_MAP,
                               ACTIVE_GAMES, RESET_EVENTS, games, loops>>
                /\ \A e \in emitted' : Receivers(e) \subseteq {s}]_vars

\* the run_game task l runs a session that a participant has left: a leave
\* handler has called tear_down on it
TornDown(l) ==
    /\ loops[l].pc # "off"
    /\ games[loops[l].game].game_id \in ACTIVE_GAMES
    /\ ~is_at_player_capacity(games[loops[l].game])

\* C20: after a leave handler has called tear_down on a session whose run_game
\* task is running, the task ticks at most once more (the tick it had already
\* decided on): its next look at the status ends the loop, it never enters the
\* wait for the reset acknowledgments nor stays in it, and it goes on to the
\* cleanup and ends
C20_LoopStopsAfterTearDown ==
    /\ [][\A l \in 1..MaxLoops :
            (TornDown(l) /\ loops[l].pc = "check") => loops'[l].pc # "tick_lock"]_vars
    /\ [][\A l \in 1..MaxLoops :
            (TornDown(l) /\ loops[l].pc # "wait") => loops'[l].pc # "wait"]_vars
    /\ \A l \in 1..MaxLoops : (TornDown(l) /\ loops[l].pc = "wait") ~> (loops[l].pc # "wait")
    /\ \A l \in 1..MaxLoops : TornDown(l) ~> (loops[l].pc = "off")

\* ------------------------------------------------------------------------
\* Episodes
\* ------------------------------------------------------------------------
\* C21 as stated: a tick whose environment step reports termination or
\* truncation leaves the status Reset if episode_num < num_episodes - 1 and
\* Done otherwise, episode_num being the session's episode counter at the tick
C21_TickEndStatusOneEarlier ==
    [][\A l \in 1..MaxLoops :
          (TickStep(l) /\ games'[loops[l].game].ended)
             => games'[loops[l].game].status =
                   (IF games[loops[l].game].episode_num < CONFIG.num_episodes - 1
                    THEN Reset ELSE Done)]_vars

\* C21 as the code has it: a tick whose environment step reports termination
\* or truncation leaves the status Reset if episode_num < num_episodes and Done
\* otherwise; the counter is 1 during the first episode, reset() having
\* incremented it
C21_TickEndStatus ==
    [][\A l \in 1..MaxLoops :
          (TickStep(l) /\ games'[loops[l].game].ended)
             => games'[loops[l].game].status =
                   (IF games[loops[l].game].episode_num < CONFIG.num_episodes
                    THEN Reset ELSE Done)]_vars

\* a tick has just ended an episode that is not the last: the status is Reset
\* with the counter at num_episodes - 1
C21_EpisodeEndedBeforeLast ==
    \E l \in 1..MaxLoops :
        /\ loops[l].pc = "after_tick"
        /\ games[loops[l].game].ended
        /\ games[loops[l].game].episode_num = CONFIG.num_episodes - 1
        /\ games[loops[l].game].status = Reset

\* C22: a session started by run_game with num_episodes = K that is never
\* torn down (no client leaves) plays exactly K episodes: the counter of the
\* episode being played goes 1, 2, ..., K, one reset after each termination
\* that left Reset; each termination with the counter below K leaves Reset,
\* and the termination with the counter at K leaves Done
C22_PlaysAllEpisodes ==
    /\ [](budget.leave = MaxLeaves =>
            \A l \in 1..MaxLoops :
               loops[l].pc \notin {"off", "start"} =>
                  /\ games[loops[l].game].episode_num \in 1..CONFIG.num_episodes
                  /\ games[loops[l].game].status = Done
                        => games[loops[l].game].episode_num = CONFIG.num_episodes)
    /\ [][budget.leave = MaxLeaves =>
            \A l \in 1..MaxLoops :
               /\ (TickStep(l) /\ games'[loops[l].game].ended)
                     => games'[loops[l].game].status =
                           (IF games[loops[l].game].episode_num = CONFIG.num_episodes
                            THEN Done ELSE Reset)
               /\ (loops[l].pc # "off" /\ loops'[l].pc # "off"
                   /\ games'[loops[l].game].episode_num # games[loops[l].game].episode_num)
                     => /\ games'[loops[l].game].episode_num
                              = games[loops[l].game].episode_num + 1
                        /\ \/ loops[l].pc = "start"
                           \/ loops[l].pc = "reset" /\ games[loops[l].game].status = Reset]_vars

\* the last of the K >= 2 episodes of a session nobody left has just ended
C22_LastEpisodeEnded ==
    \E l \in 1..MaxLoops :
        /\ budget.leave = MaxLeaves
        /\ CONFIG.num_episodes >= 2
        /\ loops[l].pc = "after_tick"
        /\ games[loops[l].game].ended
        /\ games[loops[l].game].episode_num = CONFIG.num_episodes
        /\ games[loops[l].game].status = Done

\* ------------------------------------------------------------------------
\* Failures of the environment
\* ------------------------------------------------------------------------
\* C23: when env.reset or env.step raises inside a run_game task, the session
\* of the task is torn down (status Inactive) and its id is back in FREE_IDS
\* once the task is over, and the objects of the other sessions are unchanged
C23_EnvFailureEndsSession ==
    [][\A l \in 1..MaxLoops :
          (loops[l].pc \in {"start", "tick", "reset"} /\ loops'[l].pc = "off"
           /\ faults' < faults)
             => /\ games'[loops[l].game].status = Inactive
                /\ InSeq(FREE_IDS', games[loops[l].game].game_id)
                /\ \A h \in Handles \ {loops[l].game} : games'[h] = games[h]]_vars

\* ------------------------------------------------------------------------
\* Pressed keys
\* ------------------------------------------------------------------------
\* C24: on_action from a joined connection hands enqueue_action the action of
\* the first submitted key that action_mapping maps, whenever some submitted
\* key is mapped, whatever its place in the list (here for a call that
\* enqueue_action accepts: the session is Active and the connection holds a
\* slot); when no key is mapped or the connection is not joined, the handler
\* returns and nothing is enqueued
C24_FirstMappedDelivered ==
    [][\A t \in Threads :
          (Pc(t) = "action_keys" /\ threads'[t].pc # "action_keys")
             => LET pressed_keys == threads[t].keys
                    subject_id == threads[t].subj
                    h == get_existing_game(subject_id)
                IN /\ (/\ FirstMapped(pressed_keys) # 0
                       /\ h # 0
                       /\ EnqueueAccepted(games[h], subject_id))
                         => /\ threads'[t].pc = "action_put"
                            /\ threads'[t].act =
                                  action_mapping[pressed_keys[FirstMapped(pressed_keys)]]
                   /\ (FirstMapped(pressed_keys) = 0 \/ h = 0)
                         => threads'[t] = IdleThread /\ games' = games]_vars

\* ------------------------------------------------------------------------
\* The lock of a session
\* ------------------------------------------------------------------------
\* C25: every change of the slots, the status or the action queues of a
\* RemoteGame object (after its construction) is made while the lock of the
\* object is held
C25_MutationsUnderLock ==
    [][\A h \in Handles :
          (/\ games[h].game_id # 0
           /\ games'[h].game_id = games[h].game_id
           /\ \/ games'[h].human_players # games[h].human_players
              \/ games'[h].status # games[h].status
              \/ games'[h].pending_actions # games[h].pending_actions
              \/ games'[h].pending_gen # games[h].pending_gen)
             => games[h].lock # Free]_vars

\* ------------------------------------------------------------------------
\* USER_ROOMS
\* ------------------------------------------------------------------------
\* C26: in every state with no handler in progress, a connection has the
\* entry USER_ROOMS[connection] = id iff the session with that id is live and
\* the connection holds one of its human slots; and an id with no live session
\* has no connection mapped to it and no entries in RESET_EVENTS
C26_RoomsMatchSlots ==
    (\A t \in Threads : Pc(t) = "idle") =>
        /\ \A s \in Subjects, i \in Ids :
              USER_ROOMS[s] = i <=> (GAMES[i] # 0 /\ s \in Occupants(games[GAMES[i]]))
        /\ \A i \in Ids :
              GAMES[i] = 0 => \A s \in Subjects :
                                 USER_ROOMS[s] # i /\ RESET_EVENTS[i][s] = "absent"

\* ------------------------------------------------------------------------
\* Acknowledgments outside a reset cycle
\* ------------------------------------------------------------------------
\* C27: run_game resumes a session from Reset only after every participant
\* now in the session has acknowledged during that reset cycle: when the wait
\* returns, the event of every participant is set; and when a cycle begins
\* (a tick leaves the status Reset) no acknowledgment is held over from before
\* it: no event of the session is set and reset_event is clear
C27_AcksOfThisCycleOnly ==
    [][\A l \in 1..MaxLoops :
          LET h == loops[l].game
              game_id == games[h].game_id
          IN /\ (loops[l].pc = "wait" /\ loops'[l].pc = "reset_lock")
                   => \A s \in Occupants(games[h]) : RESET_EVENTS[game_id][s] = "set"
             /\ (TickStep(l) /\ games'[h].status = Reset)
                   => /\ ~games'[h].reset_event
                      /\ \A s \in Subjects : RESET_EVENTS'[game_id][s] # "set"]_vars

\* ------------------------------------------------------------------------
\* Queues of a session that is not active
\* ------------------------------------------------------------------------
\* C28: enqueue_action changes no action queue when the status of the session
\* is not Active or the identity holds no human slot of it: the handler
\* returns; consequently, whenever the status of a session is Inactive all its
\* action queues are empty
C28_InactiveQueuesEmpty ==
    /\ [][\A t \in Threads :
            (/\ Pc(t) = "action_keys" /\ threads'[t].pc # "action_keys"
             /\ get_existing_game(threads[t].subj) # 0
             /\ ~EnqueueAccepted(games[get_existing_game(threads[t].subj)], threads[t].subj))
               => threads'[t] = IdleThread /\ games' = games]_vars
    /\ [](\A h \in Handles :
            games[h].status = Inactive
               => \A s \in Subjects : games[h].pending_actions[s] = NoAction)

\* ------------------------------------------------------------------------
\* The actions of a tick
\* ------------------------------------------------------------------------
\* C29: on each tick every human slot contributes exactly one action: the
\* action pending in the queue of its occupant, which the tick removes from
\* the queue (so that no later tick applies it again), or the default action
\* when nothing is pending or the slot is Available; and a tick never waits
\* for an action: holding the lock, it can always go on
C29_OneActionPerSlot ==
    /\ [][\A l \in 1..MaxLoops :
            (loops[l].pc = "tick" /\ loops'[l].pc = "after_tick")
               => LET h == loops[l].game
                  IN \A p \in SlotSet :
                        LET sid == games[h].human_players[p]
                        IN IF sid # Available /\ games[h].pending_actions[sid] # NoAction
                           THEN /\ games'[h].player_actions[p] = games[h].pending_actions[sid]
                                /\ games'[h].pending_actions[sid] = NoAction
                           ELSE games'[h].player_actions[p] = default_action]_vars
    /\ [](\A l \in 1..MaxLoops : loops[l].pc = "tick" => ENABLED RunGameTick(l))

\* a tick has just applied a queued action for one slot and the default
\* action for another, and the queue it took the action from is empty
C29_QueuedAndDefault ==
    \E l \in 1..MaxLoops, p, q \in SlotSet :
        LET g == games[loops[l].game]
        IN /\ loops[l].pc = "after_tick"
           /\ g.human_players[p] # Available
           /\ g.player_actions[p] \notin {default_action, NoAction}
           /\ g.pending_actions[g.human_players[p]] = NoAction
           /\ g.player_actions[q] = default_action

\* ------------------------------------------------------------------------
\* Frame skip
\* ------------------------------------------------------------------------
\* C30: with frame_skip = N, the policy of a bot agent is evaluated only on
\* ticks whose tick number is a multiple of N: a tick made with tick_num not a
\* multiple of N computes no policy action
C30_FrameSkipRespected ==
    [][\A l \in 1..MaxLoops :
          (/\ loops[l].pc = "tick" /\ loops'[l].pc = "after_tick"
           /\ games[loops[l].game].tick_num % CONFIG.frame_skip # 0)
             => games'[loops[l].game].policy_calls = {}]_vars

\* ------------------------------------------------------------------------
\* Slots
\* ------------------------------------------------------------------------
\* C31: add_player fills only a slot that is Available, and on any other slot
\* fails and leaves the slots as they were; so the step of a join that places
\* a connection changes exactly one human slot of the session, from Available
\* to the connection, every occupied slot keeps its occupant (two joins never
\* end up in the same slot), and no bot agent is among the human slots
C31_JoinFillsAvailableSlot ==
    /\ [](\A h \in Handles, p \in SlotSet, s \in Subjects :
            games[h].human_players[p] # Available
               => add_player(games[h], p, s).human_players = games[h].human_players)
    /\ [](CONFIG.bot_slots \cap SlotSet = {})
    /\ [][\A t \in Threads :
            (Pc(t) = "join_body" /\ threads'[t].pc # "join_body"
             /\ games'[threads[t].game].game_id = games[threads[t].game].game_id)
               => LET before == games[threads[t].game].human_players
                      after == games'[threads[t].game].human_players
                  IN /\ \A p \in SlotSet : before[p] # Available => after[p] = before[p]
                     /\ \A p \in SlotSet :
                           after[p] # before[p] => after[p] = threads[t].subj
                     /\ Cardinality({p \in SlotSet : after[p] # before[p]}) <= 1]_vars

\* a join has just filled the last slot of a session whose other slot another
\* connection holds: the session is full, of two different connections
C31_SecondSlotFilled ==
    \E h \in Handles, p, q \in SlotSet :
        /\ p # q
        /\ games[h].human_players[p] # Available
        /\ games[h].human_players[q] # Available
        /\ games[h].human_players[p] # games[h].human_players[q]
        /\ \E e \in emitted : e.event = "start_game" /\ e.game = games[h].game_id

\* ------------------------------------------------------------------------
\* The lock of a connection
\* ------------------------------------------------------------------------
\* C32: the handlers of join, leave_game and disconnect of one connection
\* never interleave: at most one of them is inside its critical section
\* (the body of "with SUBJECTS[subject_id]") at any time, and it is the one
\* that holds the lock of the connection
C32_OneHandlerPerConnection ==
    \A s \in Subjects :
        LET inside == {t \in Threads : /\ threads[t].subj = s
                                       /\ threads[t].op \in {"join", "leave", "disconnect"}
                                       /\ threads[t].pc \notin {"idle", "subject_lock"}}
        IN /\ Cardinality(inside) <= 1
           /\ \A t \in inside : subjLock[s] = t

\* a leave of a connection is inside its critical section while a join of the
\* same connection waits for the lock
C32_JoinWaitsForLeave ==
    \E t, u \in Threads :
        /\ threads[t].op = "leave" /\ threads[t].pc = "leave_body"
        /\ threads[u].op = "join" /\ threads[u].pc = "subject_lock"
        /\ threads[u].subj = threads[t].subj

\* ------------------------------------------------------------------------
\* The order of the locks
\* ------------------------------------------------------------------------
\* C33: no task waits for the lock of a session while it holds the lock of a
\* session, a task holds at most one lock of each kind, a handler asks for
\* the lock of its connection holding nothing and holds it whenever it holds
\* or asks for the lock of a session, and no set of handlers and game loops
\* is such that each waits for a lock held by another of the set
C33_LockOrderNoDeadlock ==
    LET Tasks == Threads \cup {LoopNames[l] : l \in 1..MaxLoops}
        LoopOf(x) == CHOOSE l \in 1..MaxLoops : LoopNames[l] = x
        wantsSubj(x) == IF x \in Threads /\ threads[x].pc = "subject_lock"
                        THEN {threads[x].subj} ELSE {}
        wantsGame(x) == IF x \in Threads
                        THEN (IF threads[x].pc = "game_lock" THEN {threads[x].game} ELSE {})
                        ELSE (IF loops[LoopOf(x)].pc \in {"tick_lock", "reset_lock", "end_lock"}
                              THEN {loops[LoopOf(x)].game} ELSE {})
        heldSubj(x) == {s \in Subjects : subjLock[s] = x}
        heldGame(x) == {h \in Handles : games[h].lock = x}
        waitsOn(x) == {y \in Tasks : \/ \E s \in wantsSubj(x) : subjLock[s] = y
                                     \/ \E h \in wantsGame(x) : games[h].lock = y}
    IN /\ \A x \in Tasks :
            /\ wantsGame(x) # {} => heldGame(x) = {}
            /\ wantsSubj(x) # {} => heldGame(x) = {} /\ heldSubj(x) = {}
            /\ Cardinality(heldGame(x)) <= 1
            /\ Cardinality(heldSubj(x)) <= 1
       /\ \A t \in Threads :
            (heldGame(t) # {} \/ wantsGame(t) # {}) => heldSubj(t) = {threads[t].subj}
       /\ \A l \in 1..MaxLoops : heldSubj(LoopNames[l]) = {}
       /\ \A W \in SUBSET Tasks : W # {} => \E x \in W : waitsOn(x) \cap W = {}

\* a handler that holds the lock of its connection waits for the lock of the
\* session while a game loop holds it, and the other handler waits for the
\* lock of that connection
C33_ChainOfWaiters ==
    \E t, u \in Threads :
        /\ threads[t].pc = "game_lock"
        /\ games[threads[t].game].lock \in {LoopNames[l] : l \in 1..MaxLoops}
        /\ threads[u].pc = "subject_lock"
        /\ subjLock[threads[u].subj] = t

\* ------------------------------------------------------------------------
\* Every promoted session ends
\* ------------------------------------------------------------------------
\* a run_game task waits at the barrier, not released, for the
\* acknowledgments of the participants its session still has
AwaitsAcks(l) ==
    /\ loops[l].pc = "wait"
    /\ ~games[loops[l].game].reset_event
    /\ Occupants(games[loops[l].game]) # {}

\* the session of id i has ended: no run_game task drives it, its status is
\* Inactive and the id is in the free pool
SessionEnded(i) ==
    /\ i \notin ACTIVE_GAMES
    /\ InSeq(FREE_IDS, i)
    /\ \A l \in 1..MaxLoops :
          loops[l].pc # "off" => games[loops[l].game].game_id # i
    /\ \A h \in Handles : games[h].game_id = i => games[h].status = Inactive

\* C34: when no game loop is left waiting for ever for the acknowledgments
\* of the participants of its session (episodes end after MaxSteps steps,
\* handlers and tasks run on), every session promoted to active eventually
\* ends: its loop has exited, its status is Inactive and its id is in the
\* free pool
C34_PromotedSessionEnds ==
    (\A l \in 1..MaxLoops : []<>(~AwaitsAcks(l)))
       => \A i \in 1..MaxIds : (i \in Ids /\ i \in ACTIVE_GAMES) ~> SessionEnded(i)

\* ------------------------------------------------------------------------
\* Joins of different connections
\* ------------------------------------------------------------------------
\* C35: when no join handler is in progress, every live session that has not
\* been promoted has at least one participant
C35_NoAbandonedSession ==
    (\A t \in Threads : threads[t].op # "join")
       => \A i \in Ids :
             (GAMES[i] # 0 /\ i \notin ACTIVE_GAMES)
                => Occupants(games[GAMES[i]]) # {}

\* ------------------------------------------------------------------------
\* Joins and promoted sessions
\* ------------------------------------------------------------------------
\* the RemoteGame object h is a live session that has been promoted
Promoted(h) ==
    /\ games[h].game_id # 0
    /\ games[h].game_id \in ACTIVE_GAMES
    /\ GAMES[games[h].game_id] = h

\* C36: no step adds a participant to a session that has been promoted to
\* active, also after a participant has left it and freed a slot
C36_NoJoinAfterPromotion ==
    [][\A h \in Handles :
          (Promoted(h) /\ games'[h].game_id = games[h].game_id)
             => Occupants(games'[h]) \subseteq Occupants(games[h])]_vars

\* ------------------------------------------------------------------------
\* After tear_down
\* ------------------------------------------------------------------------
\* a leave handler has applied tear_down to the live promoted session h: a
\* participant has left it since its promotion, and its status is Inactive
TornDownByLeave(h) ==
    /\ Promoted(h)
    /\ ~is_at_player_capacity(games[h])
    /\ games[h].status = Inactive

\* C37: once a leave handler has applied tear_down to a session, no step
\* changes its status from Inactive for as long as the session is live
C37_TornDownStaysInactive ==
    [][\A h \in Handles :
          (/\ TornDownByLeave(h)
           /\ games'[h].game_id = games[h].game_id
           /\ GAMES'[games[h].game_id] = h)
             => games'[h].status = Inactive]_vars

\* C38: every game.tick() of a run_game task runs on a session whose status
\* is Active at that moment
C38_TickOnlyWhenActive ==
    [][\A l \in 1..MaxLoops :
          TickStep(l) => games[loops[l].game].status = Active]_vars

\* ------------------------------------------------------------------------
\* Acknowledgments of connections outside the session
\* ------------------------------------------------------------------------
\* in this step a "reset_complete" event arrives at handler t
AckArrives(t) == Pc(t) = "idle" /\ threads'[t].pc = "reset_complete_check"

\* C39: a reset acknowledgment of a connection that occupies no slot of the
\* named session changes none of the session's acknowledgment flags and does
\* not release the session's barrier, whatever the pending set is
C39_OutsiderAckIgnored ==
    /\ [][\A t \in Threads :
            (/\ AckArrives(t)
             /\ threads'[t].subj \notin Occupants(games[threads'[t].game]))
               => RESET_EVENTS'[threads'[t].room] = RESET_EVENTS[threads'[t].room]]_vars
    /\ [][\A t \in Threads :
            (/\ Pc(t) = "reset_complete_check"
             /\ threads[t].subj \notin Occupants(games[threads[t].game])
             /\ ~games[threads[t].game].reset_event)
               => ~games'[threads[t].game].reset_event]_vars

\* ------------------------------------------------------------------------
\* A creation that fails
\* ------------------------------------------------------------------------
\* C40: when try_create_game has taken an id from the free pool and returns
\* an error, the id is in the free pool again: a failed creation takes
\* nothing from the capacity
C40_FailedCreateReturnsId ==
    [][\A t \in Threads :
          (/\ Pc(t) = "join_create"
           /\ FREE_IDS # <<>>
           /\ threads'[t].failed)
             => /\ InSeq(FREE_IDS', Head(FREE_IDS))
                /\ Len(FREE_IDS') = Len(FREE_IDS)]_vars

====
